---- MODULE Spec2Model ----
(***************************************************************************)
(* The main travel supervisor agent graph                                  *)
(* (src/src/agents/main_travel_supervisor_agent.py): one turn of the       *)
(* compiled StateGraph  guard_input -> (block_unsafe_content | model),     *)
(* model -> (tools | END), tools -> model, block_unsafe_content -> END.    *)
(*                                                                         *)
(* Every action is one superstep of the graph runtime: the node's function,*)
(* the reducer that applies its update to the state, the conditional edge  *)
(* that picks the next node, and the runtime's recursion-limit check.      *)
(* remaining_steps is the runtime-managed value RemainingSteps: it is not  *)
(* written by any node, it is recursion_limit - step for the superstep in  *)
(* which the node runs.                                                    *)
(***************************************************************************)
EXTENDS Integers, Sequences, FiniteSets, TLC

\* ---------------------------------------------------------------- bounds
MaxRecursionLimit == 7   \* largest recursion_limit the caller configures
MaxToolCalls == 2        \* most tool calls in one model response
MaxMessages == 13        \* cap on the history length (never binding)

\* ------------------------------------------------------------- vocabulary
Categories == {"S1", "S2"}
ToolOutcomes == {"ok", "error"}
Nodes == {"guard_input", "model", "tools", "block_unsafe_content"}
Exits == {"done", "error"}

NoCall == [msg |-> 0, idx |-> 0]
NoId == 0

\* LlamaGuardOutput: an UNSAFE verdict carries a non-empty category set.
LlamaGuardOutput ==
    [safety_assessment : {"SAFE", "ERROR"}, unsafe_categories : {{}}]
    \cup [safety_assessment : {"UNSAFE"},
          unsafe_categories : (SUBSET Categories) \ {{}}]

NoSafety == [safety_assessment |-> "NONE", unsafe_categories |-> {}]

Content(text, cats) == [text |-> text, categories |-> cats]

HumanMessage(id) ==
    [type |-> "human", content |-> Content("user", {}), tool_calls |-> <<>>,
     tool_call_id |-> NoCall, id |-> id]

AIMessage(id, content, tool_calls) ==
    [type |-> "ai", content |-> content, tool_calls |-> tool_calls,
     tool_call_id |-> NoCall, id |-> id]

ToolMessage(content, tool_call_id) ==
    [type |-> "tool", content |-> content, tool_calls |-> <<>>,
     tool_call_id |-> tool_call_id, id |-> NoId]

\* The response of the bound model: one AIMessage with a provider id and
\* n requests for the only bound tool.
ModelResponse(id, n) ==
    AIMessage(id, Content("answer", {}),
              [k \in 1..n |-> [id |-> [msg |-> id, idx |-> k],
                               name |-> "format_travel_recommendation"]])

SystemMessage ==
    [type |-> "system", id |-> NoId, content |-> Content("instructions", {}),
     tool_calls |-> <<>>, tool_call_id |-> NoCall]

\* travel_phase is an optional key of the state; "unset" stands for absent.
Phases == {"unset", "planning"}

FallbackText == "I need more steps to complete this travel planning."

\* ------------------------------------------------------------------ state
VARIABLES
    messages,         \* state["messages"]
    safety,           \* state["safety"]
    recursion_limit,  \* config["recursion_limit"] of this turn
    step,             \* superstep about to run (or that would run next)
    pc,               \* node scheduled next, "done" (END) or "error" (raised)
    nextId,           \* next fresh message id
    runs,             \* history: executions of each node in this turn
    input_safety,     \* history: the verdict guard_input obtained
    response,         \* history: last raw model response
    response_safety,  \* history: the verdict on that response
    response_remaining, \* history: remaining_steps when it was produced
    failure,          \* history: the awaited call that raised, or "none"
    model_calls,      \* history: invocations of the bound model
    completion,       \* history: order in which the last tool runs finished
    travel_phase,     \* state["travel_phase"]
    safety_writes,    \* history: updates of state["safety"] in this turn
    model_input,      \* history: the messages the bound model was last given
    amadeus_tools,    \* amadeus_tools of amadeus_tools.py (module level)
    store,            \* the persistent ChromaDB store
    call              \* history: the last function call and its result

tool_vars == <<amadeus_tools, store, call>>

graph_vars == <<messages, safety, recursion_limit, step, pc, nextId, runs,
                input_safety, response, response_safety, response_remaining,
                failure, model_calls, completion, travel_phase,
                safety_writes, model_input>>

vars == <<messages, safety, recursion_limit, step, pc, nextId, runs,
          input_safety, response, response_safety, response_remaining,
          failure, model_calls, completion, travel_phase, safety_writes,
          model_input, amadeus_tools, store, call>>

\* ----------------------------------------------------- runtime (LangGraph)
\* RemainingSteps managed value.
remaining_steps(limit, s) == limit - s

NextStep_skip(s) == s
NextStep(s) == s + 1

tick_unlimited(next, s, limit) ==
    IF next = "END" THEN "done" ELSE next

\* The loop checks the limit before it prepares the next tasks.
tick(next, s, limit) ==
    IF s > limit THEN "error"
    ELSE IF next = "END" THEN "done" ELSE next

Ids(msgs) == {msgs[i].id : i \in 1..Len(msgs)}

IndexOfId(msgs, id) == CHOOSE i \in 1..Len(msgs) : msgs[i].id = id

\* Messages without an id get a fresh one.
AssignIds(right, fresh) ==
    [i \in 1..Len(right) |->
        IF right[i].id = NoId THEN [right[i] EXCEPT !.id = fresh + i - 1]
        ELSE right[i]]

RECURSIVE Merge(_, _)
Merge(left, right) ==
    IF right = <<>> THEN left
    ELSE LET m == Head(right) IN
         IF m.id \in Ids(left)
         THEN Merge([left EXCEPT ![IndexOfId(left, m.id)] = m], Tail(right))
         ELSE Merge(Append(left, m), Tail(right))

\* The reducer of MessagesState: merge by id, append otherwise.
add_messages(left, right, fresh) == Merge(left, AssignIds(right, fresh))

\* ------------------------------------------------------------- the nodes
format_safety_message(s) ==
    AIMessage(NoId, Content("flagged", s.unsafe_categories), <<>>)

\* The preprocessor of wrap_model: the instructions, then the history.
wrap_model(msgs) == <<SystemMessage>> \o msgs

\* A node's update writes the keys it returns and leaves the others alone.
Channel(update, key, old) ==
    IF key \in DOMAIN update THEN update[key] ELSE old

acall_model_unguarded(msgs, remaining, resp, safety_output) ==
    IF remaining < 2 /\ resp.tool_calls # <<>>
    THEN [messages |-> <<AIMessage(resp.id, Content(FallbackText, {}), <<>>)>>,
          safety |-> NoSafety, has_safety |-> FALSE]
    ELSE [messages |-> <<resp>>, safety |-> NoSafety, has_safety |-> FALSE]

acall_model_no_fallback(msgs, remaining, resp, safety_output) ==
    IF safety_output.safety_assessment = "UNSAFE"
    THEN [messages |-> <<format_safety_message(safety_output)>>,
          safety |-> safety_output, has_safety |-> TRUE]
    ELSE [messages |-> <<resp>>, safety |-> NoSafety, has_safety |-> FALSE]

acall_model_stale_id(msgs, remaining, resp, safety_output) ==
    IF safety_output.safety_assessment = "UNSAFE"
    THEN [messages |-> <<format_safety_message(safety_output)>>,
          safety |-> safety_output, has_safety |-> TRUE]
    ELSE IF remaining < 2 /\ resp.tool_calls # <<>>
    THEN [messages |-> <<AIMessage(msgs[Len(msgs)].id,
                                   Content(FallbackText, {}), <<>>)>>,
          safety |-> NoSafety, has_safety |-> FALSE]
    ELSE [messages |-> <<resp>>, safety |-> NoSafety, has_safety |-> FALSE]

acall_model_always_writes(msgs, remaining, resp, safety_output) ==
    IF safety_output.safety_assessment = "UNSAFE"
    THEN [messages |-> <<format_safety_message(safety_output)>>,
          safety |-> safety_output, has_safety |-> TRUE]
    ELSE IF remaining < 2 /\ resp.tool_calls # <<>>
    THEN [messages |-> <<AIMessage(resp.id, Content(FallbackText, {}), <<>>)>>,
          safety |-> safety_output, has_safety |-> TRUE]
    ELSE [messages |-> <<resp>>, safety |-> safety_output,
          has_safety |-> TRUE]

acall_model_persist_system(msgs, remaining, resp, safety_output) ==
    IF safety_output.safety_assessment = "UNSAFE"
    THEN [messages |-> <<format_safety_message(safety_output)>>,
          safety |-> safety_output, has_safety |-> TRUE]
    ELSE IF remaining < 2 /\ resp.tool_calls # <<>>
    THEN [messages |-> <<AIMessage(resp.id, Content(FallbackText, {}), <<>>)>>,
          safety |-> NoSafety, has_safety |-> FALSE]
    ELSE [messages |-> <<SystemMessage, resp>>, safety |-> NoSafety,
          has_safety |-> FALSE]

acall_model_sets_phase(msgs, remaining, resp, safety_output) ==
    IF safety_output.safety_assessment = "UNSAFE"
    THEN [messages |-> <<format_safety_message(safety_output)>>,
          safety |-> safety_output, has_safety |-> TRUE]
    ELSE IF remaining < 2 /\ resp.tool_calls # <<>>
    THEN [messages |-> <<AIMessage(resp.id, Content(FallbackText, {}), <<>>)>>,
          safety |-> NoSafety, has_safety |-> FALSE]
    ELSE [messages |-> <<resp>>, safety |-> NoSafety, has_safety |-> FALSE,
          travel_phase |-> "booking"]

acall_model_fallback_first(msgs, remaining, resp, safety_output) ==
    IF remaining < 2 /\ resp.tool_calls # <<>>
    THEN [messages |-> <<AIMessage(resp.id, Content(FallbackText, {}), <<>>)>>,
          safety |-> NoSafety, has_safety |-> FALSE]
    ELSE IF safety_output.safety_assessment = "UNSAFE"
    THEN [messages |-> <<format_safety_message(safety_output)>>,
          safety |-> safety_output, has_safety |-> TRUE]
    ELSE [messages |-> <<resp>>, safety |-> NoSafety, has_safety |-> FALSE]

acall_model(msgs, remaining, resp, safety_output) ==
    IF safety_output.safety_assessment = "UNSAFE"
    THEN [messages |-> <<format_safety_message(safety_output)>>,
          safety |-> safety_output, has_safety |-> TRUE]
    ELSE IF remaining < 2 /\ resp.tool_calls # <<>>
    THEN [messages |-> <<AIMessage(resp.id, Content(FallbackText, {}), <<>>)>>,
          safety |-> NoSafety, has_safety |-> FALSE]
    ELSE [messages |-> <<resp>>, safety |-> NoSafety, has_safety |-> FALSE]

llama_guard_input(safety_output) ==
    [safety |-> safety_output, messages |-> <<>>]

block_unsafe_content(s) == [messages |-> <<format_safety_message(s)>>]

check_safety_always_safe(s) == "safe"

check_safety(s) ==
    IF s.safety_assessment = "UNSAFE" THEN "unsafe" ELSE "safe"

SafetyEdge_unmapped(branch) == branch

SafetyEdge_swapped(branch) ==
    IF branch = "unsafe" THEN "model" ELSE "block_unsafe_content"

SafetyEdge(branch) ==
    IF branch = "unsafe" THEN "block_unsafe_content" ELSE "model"

pending_tool_calls_unchecked(msgs) ==
    LET last_message == msgs[Len(msgs)] IN
    IF last_message.tool_calls # <<>> THEN "tools" ELSE "done"

pending_tool_calls_always_done(msgs) ==
    LET last_message == msgs[Len(msgs)] IN
    IF last_message.type # "ai" THEN "TypeError" ELSE "done"

pending_tool_calls(msgs) ==
    LET last_message == msgs[Len(msgs)] IN
    IF last_message.type # "ai" THEN "TypeError"
    ELSE IF last_message.tool_calls # <<>> THEN "tools"
    ELSE "done"

ModelEdge_done_to_tools(branch) ==
    IF branch = "tools" THEN "END"
    ELSE IF branch = "done" THEN "tools" ELSE "raise"

ModelEdge(branch) ==
    IF branch = "tools" THEN "tools"
    ELSE IF branch = "done" THEN "END" ELSE "raise"

FirstAI(msgs) ==
    CHOOSE i \in 1..Len(msgs) :
        /\ msgs[i].type = "ai"
        /\ \A j \in 1..(i - 1) : msgs[j].type # "ai"

ToolNode_first_request(msgs, outcome) ==
    LET calls == msgs[Len(msgs)].tool_calls
        first == msgs[FirstAI(msgs)].tool_calls IN
    [k \in 1..Len(calls) |->
        ToolMessage(Content(outcome[k], {}),
                    IF k <= Len(first) THEN first[k].id ELSE calls[k].id)]

\* ToolNode: one ToolMessage per tool call of the last AIMessage, in the
\* order of the calls; a tool that raises yields an error ToolMessage.
ToolNode(msgs, outcome) ==
    LET calls == msgs[Len(msgs)].tool_calls IN
    [k \in 1..Len(calls) |->
        ToolMessage(Content(outcome[k], {}), calls[k].id)]

Gather_as_completed(results, order) ==
    [k \in 1..Len(results) |-> results[order[k]]]

\* ToolNode awaits the tool runs together and keeps their outputs in the
\* order of the calls, whatever the order in which they finish.
Gather(results, order) == results

ModelFailure_swallowed(msgs) ==
    [messages |-> <<AIMessage(NoId, Content("error", {}), <<>>)>>,
     next |-> "END", attempts |-> 1]

\* model_runnable.ainvoke raising inside acall_model: no handler and no
\* retry, the node returns no update and the exception leaves the graph.
ModelFailure(msgs) == [messages |-> <<>>, next |-> "raise", attempts |-> 1]

\* ------------------------------------------------- tools (amadeus_tools.py)
\* A tool matches by substrings of its name; a toolkit is modelled by the
\* kinds of tool its names match.
AmadeusKinds == {"flight_search", "hotel_search", "airport", "city_search"}

\* Result lists hold opaque items.
Items(n) == [i \in 1..n |-> "item"]

\* Outcome of tool.invoke on the Amadeus client.
InvokeOutcomes ==
    {[raised |-> TRUE, error |-> "e", items |-> <<>>]}
    \cup {[raised |-> FALSE, error |-> "", items |-> Items(n)] : n \in 0..1}

\* The dictionary a tool returns; a message is kept as its text fragments.
ToolResult(success, message, key, results, has_params) ==
    [raised |-> FALSE, success |-> success, message |-> message, key |-> key,
     results |-> results, has_params |-> has_params]

\* An exception that leaves the tool function.
ToolRaised(error) ==
    [raised |-> TRUE, success |-> FALSE, message |-> <<error>>, key |-> "",
     results |-> <<>>, has_params |-> FALSE]

search_flights_amadeus(tools, invoke) ==
    IF tools = {}
    THEN ToolResult(FALSE, <<"Amadeus toolkit not available. Please check API credentials.">>,
                    "flights", <<>>, FALSE)
    ELSE IF "flight_search" \notin tools
    THEN ToolResult(FALSE, <<"Flight search tool not found in Amadeus toolkit">>,
                    "flights", <<>>, FALSE)
    ELSE IF invoke.raised
    THEN ToolResult(FALSE, <<"Error searching flights: ", invoke.error>>,
                    "flights", <<>>, FALSE)
    ELSE ToolResult(TRUE, <<"Found flights from ", "origin", " to ",
                            "destination">>, "flights", invoke.items, TRUE)

search_hotels_amadeus(tools, invoke) ==
    IF tools = {}
    THEN ToolResult(FALSE, <<"Amadeus toolkit not available. Please check API credentials.">>,
                    "hotels", <<>>, FALSE)
    ELSE IF "hotel_search" \notin tools
    THEN ToolResult(FALSE, <<"Hotel search tool not found in Amadeus toolkit">>,
                    "hotels", <<>>, FALSE)
    ELSE IF invoke.raised
    THEN ToolResult(FALSE, <<"Error searching hotels: ", invoke.error>>,
                    "hotels", <<>>, FALSE)
    ELSE ToolResult(TRUE, <<"Found hotels in ", "city_code">>, "hotels",
                    invoke.items, TRUE)

get_airport_codes_amadeus(tools, invoke) ==
    IF tools = {}
    THEN ToolResult(FALSE, <<"Amadeus toolkit not available. Please check API credentials.">>,
                    "airports", <<>>, FALSE)
    ELSE IF "airport" \notin tools
    THEN ToolResult(FALSE, <<"Airport search tool not found in Amadeus toolkit">>,
                    "airports", <<>>, FALSE)
    ELSE IF invoke.raised
    THEN ToolResult(FALSE, <<"Error searching airports: ", invoke.error>>,
                    "airports", <<>>, FALSE)
    ELSE ToolResult(TRUE, <<"Found airports for ", "city_name">>, "airports",
                    invoke.items, FALSE)

get_city_codes_amadeus(tools, invoke) ==
    IF tools = {}
    THEN ToolResult(FALSE, <<"Amadeus toolkit not available. Please check API credentials.">>,
                    "cities", <<>>, FALSE)
    ELSE IF "city_search" \notin tools
    THEN ToolResult(FALSE, <<"City search tool not found in Amadeus toolkit">>,
                    "cities", <<>>, FALSE)
    ELSE IF invoke.raised
    THEN ToolResult(FALSE, <<"Error searching cities: ", invoke.error>>,
                    "cities", <<>>, FALSE)
    ELSE ToolResult(TRUE, <<"Found cities matching ", "city_name">>, "cities",
                    invoke.items, FALSE)

\* ---- format_amadeus_results
TopFlights == 5
TopHotels == 5
TopAirports == 3

Min(a, b) == IF a < b THEN a ELSE b

Line(text, n) == [text |-> text, n |-> n]

\* An argument of format_amadeus_results: None, or a dictionary with its
\* "success" flag, its result list, whether it has "search_params" and
\* whether the entries of the list are dictionaries.
NoneArg ==
    [present |-> FALSE, success |-> FALSE, results |-> <<>>,
     has_params |-> FALSE, dicts |-> FALSE]

DictArg(success, n, has_params, dicts) ==
    [present |-> TRUE, success |-> success, results |-> Items(n),
     has_params |-> has_params, dicts |-> dicts]

ItemCounts == {0, 1, TopFlights + 1}

SearchArgs ==
    {NoneArg, DictArg(FALSE, 0, FALSE, TRUE), DictArg(TRUE, 1, FALSE, TRUE)}
    \cup {DictArg(TRUE, n, TRUE, TRUE) : n \in ItemCounts}

AirportArgs ==
    {NoneArg, DictArg(FALSE, 0, FALSE, TRUE), DictArg(TRUE, 1, FALSE, FALSE)}
    \cup {DictArg(TRUE, n, FALSE, TRUE) : n \in ItemCounts}

\* One section of the markdown: the heading, then per listed entry its
\* lines, or the "none found" line; raises where the code indexes a missing
\* "search_params" or calls .get on an entry that is not a dictionary.
FlightSection(arg) ==
    IF ~(arg.present /\ arg.success) THEN [raised |-> FALSE, lines |-> <<>>]
    ELSE IF arg.results = <<>>
    THEN [raised |-> FALSE,
          lines |-> <<Line("## Flight Search Results", 0),
                      Line("No flights found for the specified criteria.", 0)>>]
    ELSE IF ~arg.has_params THEN [raised |-> TRUE, lines |-> <<>>]
    ELSE [raised |-> FALSE,
          lines |-> <<Line("## Flight Search Results", 0)>>
                    \o [i \in 1..Min(Len(arg.results), TopFlights) |->
                           Line("### Flight", i)]]

HotelSection(arg) ==
    IF ~(arg.present /\ arg.success) THEN [raised |-> FALSE, lines |-> <<>>]
    ELSE IF arg.results = <<>>
    THEN [raised |-> FALSE,
          lines |-> <<Line("## Hotel Search Results", 0),
                      Line("No hotels found for the specified criteria.", 0)>>]
    ELSE IF ~arg.has_params THEN [raised |-> TRUE, lines |-> <<>>]
    ELSE [raised |-> FALSE,
          lines |-> <<Line("## Hotel Search Results", 0)>>
                    \o [i \in 1..Min(Len(arg.results), TopHotels) |->
                           Line("### Hotel", i)]]

AirportSection(arg) ==
    IF ~(arg.present /\ arg.success) THEN [raised |-> FALSE, lines |-> <<>>]
    ELSE IF arg.results = <<>>
    THEN [raised |-> FALSE,
          lines |-> <<Line("## Airport Information", 0),
                      Line("No airports found for the specified criteria.", 0)>>]
    ELSE IF ~arg.dicts THEN [raised |-> TRUE, lines |-> <<>>]
    ELSE [raised |-> FALSE,
          lines |-> <<Line("## Airport Information", 0)>>
                    \o [i \in 1..Min(Len(arg.results), TopAirports) |->
                           Line("- airport", i)]]

\* format_amadeus_results has no exception handler: what a section raises
\* leaves the tool.
format_amadeus_results(flight_results, hotel_results, airport_results) ==
    LET f == FlightSection(flight_results)
        h == HotelSection(hotel_results)
        a == AirportSection(airport_results)
        markdown_parts == f.lines \o h.lines \o a.lines
    IN
    IF f.raised \/ (\neg f.raised /\ h.raised)
       \/ (\neg f.raised /\ \neg h.raised /\ a.raised)
    THEN [raised |-> TRUE, markdown |-> <<>>]
    ELSE IF markdown_parts = <<>>
    THEN [raised |-> FALSE,
          markdown |-> <<Line("No search results available.", 0)>>]
    ELSE [raised |-> FALSE, markdown |-> markdown_parts]

\* ------------------------------------------ tools (chroma_travel_tools.py)
Destinations == {"Goa", "Kyoto"}

Country(d) == IF d = "Goa" THEN "India" ELSE "Japan"

Region(d) == IF d = "Goa" THEN "South Asia" ELSE "East Asia"

\* str.lower() and the substring test, on the strings the filters use.
Lower(t) ==
    CASE t = "India" -> "india"
      [] t = "Japan" -> "japan"
      [] t = "South Asia" -> "south asia"
      [] t = "East Asia" -> "east asia"
      [] t = "Asia" -> "asia"
      [] t = "Ind" -> "ind"
      [] t = "Goa" -> "goa"
      [] t = "Kyoto" -> "kyoto"
      [] OTHER -> t

Contains(needle, hay) ==
    \/ needle = hay
    \/ needle = "asia" /\ hay \in {"south asia", "east asia"}
    \/ needle = "ind" /\ hay = "india"

\* Distances in tenths; similarity_score = 1.0 - distance.
Distances == {0, 5, 12}

Similarity(distance) == 10 - distance

\* The database directory: absent, present without chroma.sqlite3, or
\* holding it.
DbPaths == {"missing", "empty", "sqlite"}

EmptyStore ==
    [client_ok |-> TRUE, path |-> "missing", exists |-> FALSE, docs |-> {}]

Stores ==
    {[client_ok |-> c, path |-> "missing", exists |-> FALSE, docs |-> {}] :
        c \in BOOLEAN}
    \cup {[client_ok |-> c, path |-> "sqlite", exists |-> TRUE, docs |-> d] :
             c \in BOOLEAN, d \in SUBSET Destinations}

\* chromadb.PersistentClient(path): opening the client creates the directory
\* and its chroma.sqlite3.
PersistentClient(st) ==
    IF st.client_ok THEN [st EXCEPT !.path = "sqlite"] ELSE st

\* Whether client.get_collection and client.create_collection succeed.
CollectionIO == [get_ok : BOOLEAN, create_ok : BOOLEAN]

get_chroma_client(st) == st.client_ok

\* The collection (or None) and the store afterwards: a missing collection
\* is created empty.
get_travel_collection(st, io) ==
    LET opened == PersistentClient(st) IN
    IF ~get_chroma_client(st) THEN [collection |-> FALSE, store |-> st]
    ELSE IF st.exists /\ io.get_ok
    THEN [collection |-> TRUE, store |-> opened]
    ELSE IF ~st.exists /\ io.create_ok
    THEN [collection |-> TRUE,
          store |-> [opened EXCEPT !.exists = TRUE, !.docs = {}]]
    ELSE [collection |-> FALSE, store |-> opened]

\* collection.query: the n nearest documents by increasing distance, or an
\* exception (n < 1 is rejected by the client).
QueryHits(docs, n) ==
    {h \in [1..n -> [destination : docs, distance : Distances]] :
        /\ \A i, j \in 1..n : i # j => h[i].destination # h[j].destination
        /\ \A i \in 1..(n - 1) : h[i].distance <= h[i + 1].distance}

QueryOutcomes(docs, n) ==
    {[raised |-> TRUE, error |-> "e", hits |-> <<>>]}
    \cup IF n < 1 THEN {}
         ELSE {[raised |-> FALSE, error |-> "", hits |-> h] :
                  h \in QueryHits(docs, n)}

DestinationOf(hit) ==
    [destination |-> hit.destination, country |-> Country(hit.destination),
     region |-> Region(hit.destination),
     similarity_score |-> Similarity(hit.distance)]

NotAvailable ==
    <<"Travel vector database not available. Please run the setup script first.">>

NoDestinations ==
    <<"No destinations found",
      " in database. Please run the setup script to populate the database.">>

search_destinations_chroma_unchecked(st, io, n_results, q) ==
    LET got == get_travel_collection(st, io)
        count == Cardinality(got.store.docs)
        destinations == [i \in 1..Len(q.hits) |-> DestinationOf(q.hits[i])]
    IN
    [store |-> got.store,
     result |->
        IF ~got.collection
        THEN ToolResult(FALSE, NotAvailable, "destinations", <<>>, FALSE)
        ELSE IF q.raised /\ count > 0
        THEN ToolResult(FALSE, <<"Error searching destinations: ", q.error>>,
                        "destinations", <<>>, FALSE)
        ELSE ToolResult(TRUE, <<"Found ", ToString(Len(destinations)),
                                " destinations matching '", "query", "'">>,
                        "destinations", destinations, FALSE)]

search_destinations_chroma(st, io, n_results, q) ==
    LET got == get_travel_collection(st, io)
        count == Cardinality(got.store.docs)
        destinations == [i \in 1..Len(q.hits) |-> DestinationOf(q.hits[i])]
    IN
    [store |-> got.store,
     result |->
        IF ~got.collection
        THEN ToolResult(FALSE, NotAvailable, "destinations", <<>>, FALSE)
        ELSE IF count = 0
        THEN ToolResult(FALSE, NoDestinations, "destinations", <<>>, FALSE)
        ELSE IF q.raised
        THEN ToolResult(FALSE, <<"Error searching destinations: ", q.error>>,
                        "destinations", <<>>, FALSE)
        ELSE ToolResult(TRUE, <<"Found ", ToString(Len(destinations)),
                                " destinations matching '", "query", "'">>,
                        "destinations", destinations, FALSE)]

\* The filters of search_destinations_by_criteria_chroma; "" is None.
CountryFilters == {"", "Ind"}
RegionFilters == {"", "Asia"}

PassesFilters(hit, country, region) ==
    /\ country = "" \/ Contains(Lower(country), Lower(Country(hit.destination)))
    /\ region = "" \/ Contains(Lower(region), Lower(Region(hit.destination)))

RECURSIVE FilterHits(_, _, _)
FilterHits(hits, country, region) ==
    IF hits = <<>> THEN <<>>
    ELSE IF PassesFilters(Head(hits), country, region)
    THEN <<DestinationOf(Head(hits))>>
         \o FilterHits(Tail(hits), country, region)
    ELSE FilterHits(Tail(hits), country, region)

search_destinations_by_criteria_chroma(st, io, country, region, n_results, q) ==
    LET got == get_travel_collection(st, io)
        count == Cardinality(got.store.docs)
        destinations == FilterHits(q.hits, country, region)
    IN
    [store |-> got.store,
     result |->
        IF ~got.collection
        THEN ToolResult(FALSE, NotAvailable, "destinations", <<>>, FALSE)
        ELSE IF count = 0
        THEN ToolResult(FALSE, NoDestinations, "destinations", <<>>, FALSE)
        ELSE IF q.raised
        THEN ToolResult(FALSE, <<"Error searching destinations: ", q.error>>,
                        "destinations", <<>>, FALSE)
        ELSE ToolResult(TRUE, <<"Found ", ToString(Len(destinations)),
                                " destinations matching criteria">>,
                        "destinations", destinations, FALSE)]

\* n_results of the query of get_destination_by_name_chroma.
LookupResults == 10

NameMatches(dest, name) ==
    LET dest_name == Lower(dest)
        wanted == Lower(name)
    IN
    \/ dest_name = wanted
    \/ Contains(wanted, dest_name)
    \/ Contains(dest_name, wanted)

\* The loop over the query results: a matching name replaces the best match
\* only when its similarity is above the best score so far.
RECURSIVE BestMatch(_, _, _, _)
BestMatch(hits, name, best_score, best_match) ==
    IF hits = <<>> THEN best_match
    ELSE IF /\ NameMatches(Head(hits).destination, name)
            /\ Similarity(Head(hits).distance) > best_score
    THEN BestMatch(Tail(hits), name, Similarity(Head(hits).distance),
                   <<DestinationOf(Head(hits))>>)
    ELSE BestMatch(Tail(hits), name, best_score, best_match)

get_destination_by_name_chroma(st, io, destination_name, q) ==
    LET got == get_travel_collection(st, io)
        count == Cardinality(got.store.docs)
        best_match == BestMatch(q.hits, destination_name, 0, <<>>)
    IN
    [store |-> got.store,
     result |->
        IF ~got.collection
        THEN ToolResult(FALSE, NotAvailable, "destination", <<>>, FALSE)
        ELSE IF count = 0
        THEN ToolResult(FALSE, NoDestinations, "destination", <<>>, FALSE)
        ELSE IF q.raised
        THEN ToolResult(FALSE, <<"Error getting destination: ", q.error>>,
                        "destination", <<>>, FALSE)
        ELSE IF best_match # <<>>
        THEN ToolResult(TRUE, <<"Found destination: ",
                                best_match[1].destination>>,
                        "destination", best_match, FALSE)
        ELSE ToolResult(FALSE, <<"Destination '", destination_name,
                                 "' not found in database">>,
                        "destination", <<>>, FALSE)]

\* ------------------------------------------- seeding (scripts/*.py)
BatchSize == 100

\* Destinations loaded from the CSV file: none, one, one more than a batch.
CsvRows == {0, 1, BatchSize + 1}

CsvFiles ==
    {[present |-> FALSE, rows |-> 0]}
    \cup {[present |-> TRUE, rows |-> n] : n \in CsvRows}

NumBatches(n) == (n + BatchSize - 1) \div BatchSize

\* The directory exists, chroma.sqlite3 exists in it, and some file ending
\* in .bin or .sqlite3 (chroma.sqlite3 itself) is found below it.
check_chromadb_exists(st) == st.path = "sqlite"

\* Whether self.collection is set, and the store afterwards.
setup_client(st, reset_db, io) ==
    LET cleared ==
            IF reset_db /\ st.path # "missing"
            THEN [st EXCEPT !.path = "missing", !.exists = FALSE, !.docs = {}]
            ELSE st
        opened == PersistentClient(cleared)
    IN
    IF ~cleared.client_ok THEN [ok |-> FALSE, store |-> cleared]
    ELSE IF cleared.exists /\ io.get_ok THEN [ok |-> TRUE, store |-> opened]
    ELSE IF ~cleared.exists /\ io.create_ok
    THEN [ok |-> TRUE, store |-> [opened EXCEPT !.exists = TRUE, !.docs = {}]]
    ELSE [ok |-> FALSE, store |-> opened]

\* The batch loop: documents dest_(i+1) .. dest_(i+batch_size) are added per
\* batch; collection.add of batch number fail_at raises (0: none does).
RECURSIVE AddBatches(_, _, _, _)
AddBatches(st, i, n, fail_at) ==
    IF i >= n THEN [ok |-> TRUE, store |-> st]
    ELSE IF (i \div BatchSize) + 1 = fail_at THEN [ok |-> FALSE, store |-> st]
    ELSE AddBatches(
             [st EXCEPT !.docs = @ \cup ((i + 1)..Min(i + BatchSize, n))],
             i + BatchSize, n, fail_at)

populate_database(st, collection, n, fail_at) ==
    IF ~collection THEN [ok |-> FALSE, store |-> st]
    ELSE IF n = 0 THEN [ok |-> FALSE, store |-> st]
    ELSE AddBatches(st, 0, n, fail_at)

seed_chromadb(st, csv, io, count_ok, fail_at) ==
    LET setup == setup_client(st, FALSE, io) IN
    IF ~csv.present THEN [ok |-> FALSE, store |-> st]
    ELSE IF ~setup.ok THEN [ok |-> FALSE, store |-> setup.store]
    ELSE IF count_ok /\ setup.store.docs # {}
    THEN [ok |-> TRUE, store |-> setup.store]
    ELSE IF csv.rows = 0 THEN [ok |-> FALSE, store |-> setup.store]
    ELSE populate_database(setup.store, TRUE, csv.rows, fail_at)

main(st, csv, io, count_ok, fail_at) ==
    IF check_chromadb_exists(st) THEN [ok |-> TRUE, store |-> st]
    ELSE seed_chromadb(st, csv, io, count_ok, fail_at)

NoToolCall == [tool |-> "none"]

\* ---------------------------------------------------------------- actions
Init ==
    /\ messages = <<HumanMessage(1)>>
    /\ safety = NoSafety
    /\ recursion_limit \in 1..MaxRecursionLimit
    /\ step = 1
    /\ pc = "guard_input"
    /\ nextId = 2
    /\ runs = [n \in Nodes |-> 0]
    /\ input_safety = NoSafety
    /\ response = ModelResponse(NoId, 0)
    /\ response_safety = NoSafety
    /\ response_remaining = 0
    /\ failure = "none"
    /\ model_calls = 0
    /\ completion = <<>>
    /\ travel_phase \in Phases
    /\ safety_writes = 0
    /\ model_input = <<>>
    /\ amadeus_tools = {}
    /\ store = EmptyStore
    /\ call = NoToolCall

GuardInput ==
    /\ pc = "guard_input"
    /\ \E raised \in BOOLEAN, safety_output \in LlamaGuardOutput :
         IF raised
         THEN /\ pc' = "error"
              /\ failure' = "guard_input"
              /\ UNCHANGED <<safety, messages, input_safety, step,
                             travel_phase, safety_writes>>
         ELSE LET update == llama_guard_input(safety_output) IN
              /\ safety' = update.safety
              /\ safety_writes' = safety_writes + 1
              /\ travel_phase' = Channel(update, "travel_phase", travel_phase)
              /\ messages' = add_messages(messages, update.messages, nextId)
              /\ input_safety' = safety_output
              /\ step' = NextStep(step)
              /\ pc' = tick(SafetyEdge(check_safety(update.safety)),
                            step', recursion_limit)
              /\ failure' = failure
    /\ runs' = [runs EXCEPT !["guard_input"] = @ + 1]
    /\ UNCHANGED <<recursion_limit, nextId, response, response_safety,
                   response_remaining, model_calls, completion, model_input>>
    /\ UNCHANGED tool_vars

BlockUnsafeContent ==
    /\ pc = "block_unsafe_content"
    /\ Len(messages) < MaxMessages
    /\ LET update == block_unsafe_content(safety) IN
       /\ messages' = add_messages(messages, update.messages, nextId)
       /\ nextId' = nextId + Len(update.messages)
       /\ travel_phase' = Channel(update, "travel_phase", travel_phase)
    /\ step' = NextStep(step)
    /\ pc' = tick("END", step', recursion_limit)
    /\ runs' = [runs EXCEPT !["block_unsafe_content"] = @ + 1]
    /\ UNCHANGED <<safety, recursion_limit, input_safety, response,
                   response_safety, response_remaining, failure,
                   model_calls, completion, safety_writes, model_input>>
    /\ UNCHANGED tool_vars

Model ==
    /\ pc = "model"
    /\ Len(messages) < MaxMessages
    /\ \/ \* the model call raises
          LET update == ModelFailure(messages)
              merged == add_messages(messages, update.messages, nextId)
          IN
          /\ messages' = merged
          /\ model_calls' = model_calls + update.attempts
          /\ step' = IF update.next = "raise" THEN step ELSE NextStep(step)
          /\ pc' = IF update.next = "raise" THEN "error"
                   ELSE tick(update.next, step', recursion_limit)
          /\ failure' = "model"
          /\ UNCHANGED <<safety, response, response_safety,
                         response_remaining, travel_phase, safety_writes>>
       \/ \* the model answers, the output classifier raises
          /\ model_calls' = model_calls + 1
          /\ pc' = "error"
          /\ failure' = "guard_output"
          /\ UNCHANGED <<messages, safety, response, response_safety,
                         response_remaining, step, travel_phase,
                         safety_writes>>
       \/ \* both calls return
          \E n \in 0..MaxToolCalls, safety_output \in LlamaGuardOutput :
            LET resp == ModelResponse(nextId, n)
                remaining == remaining_steps(recursion_limit, step)
                update == acall_model(messages, remaining, resp,
                                      safety_output)
                merged == add_messages(messages, update.messages, nextId + 1)
                next == ModelEdge(pending_tool_calls(merged))
            IN
            /\ messages' = merged
            /\ safety' = IF update.has_safety THEN update.safety ELSE safety
            /\ safety_writes' =
                  safety_writes + (IF update.has_safety THEN 1 ELSE 0)
            /\ travel_phase' = Channel(update, "travel_phase", travel_phase)
            /\ response' = resp
            /\ response_safety' = safety_output
            /\ response_remaining' = remaining
            /\ step' = NextStep(step)
            /\ pc' = IF next = "raise" THEN "error"
                     ELSE tick(next, step', recursion_limit)
            /\ model_calls' = model_calls + 1
            /\ failure' = failure
    /\ model_input' = wrap_model(messages)
    /\ nextId' = nextId + 2
    /\ runs' = [runs EXCEPT !["model"] = @ + 1]
    /\ UNCHANGED <<recursion_limit, input_safety, completion>>
    /\ UNCHANGED tool_vars

Tools ==
    /\ pc = "tools"
    /\ Len(messages) + Len(messages[Len(messages)].tool_calls) <= MaxMessages
    /\ LET calls == messages[Len(messages)].tool_calls IN
       \E outcome \in [1..Len(calls) -> ToolOutcomes],
          order \in Permutations(1..Len(calls)) :
         LET update == Gather(ToolNode(messages, outcome), order) IN
         /\ messages' = add_messages(messages, update, nextId)
         /\ nextId' = nextId + Len(update)
         /\ completion' = order
    /\ step' = NextStep(step)
    /\ pc' = tick("model", step', recursion_limit)
    /\ runs' = [runs EXCEPT !["tools"] = @ + 1]
    /\ UNCHANGED <<safety, recursion_limit, input_safety, response,
                   response_safety, response_remaining, failure,
                   model_calls, travel_phase, safety_writes, model_input>>
    /\ UNCHANGED tool_vars

Next == GuardInput \/ BlockUnsafeContent \/ Model \/ Tools

Spec == Init /\ [][Next]_vars

\* Every awaited external call returns, so a scheduled node runs.
FairSpec == Spec /\ WF_vars(Next)

\* ------------------------------------------- the functions, called directly
Toolkits == {{}, {"flight_search", "airport"}, AmadeusKinds}

AmadeusToolNames ==
    {"search_flights_amadeus", "search_hotels_amadeus",
     "get_airport_codes_amadeus", "get_city_codes_amadeus"}

ChromaSearchNames ==
    {"search_destinations_chroma", "search_destinations_by_criteria_chroma"}

ToolNames ==
    AmadeusToolNames \cup ChromaSearchNames \cup {"format_amadeus_results"}

NResults == {0, 1, 5}

\* Histories handed to the edge out of the model node.
EdgeHistories ==
    {<<HumanMessage(1), m>> :
        m \in {HumanMessage(2), ModelResponse(2, 0), ModelResponse(2, 1),
               [ToolMessage(Content("ok", {}), [msg |-> 1, idx |-> 1])
                   EXCEPT !.id = 2]}}

ToolsInit ==
    /\ messages = <<HumanMessage(1)>>
    /\ safety = NoSafety
    /\ recursion_limit = MaxRecursionLimit
    /\ step = 1
    /\ pc = "idle"
    /\ nextId = 2
    /\ runs = [n \in Nodes |-> 0]
    /\ input_safety = NoSafety
    /\ response = ModelResponse(NoId, 0)
    /\ response_safety = NoSafety
    /\ response_remaining = 0
    /\ failure = "none"
    /\ model_calls = 0
    /\ completion = <<>>
    /\ travel_phase = "unset"
    /\ safety_writes = 0
    /\ model_input = <<>>
    /\ \/ amadeus_tools \in Toolkits /\ store = EmptyStore
       \/ amadeus_tools = {} /\ store \in Stores
    /\ call = NoToolCall

CallAmadeus ==
    /\ \E tool \in AmadeusToolNames, invoke \in InvokeOutcomes :
         call' = [tool |-> tool, args |-> [invoke |-> invoke],
                  store_before |-> store,
                  result |->
                     CASE tool = "search_flights_amadeus" ->
                              search_flights_amadeus(amadeus_tools, invoke)
                       [] tool = "search_hotels_amadeus" ->
                              search_hotels_amadeus(amadeus_tools, invoke)
                       [] tool = "get_airport_codes_amadeus" ->
                              get_airport_codes_amadeus(amadeus_tools, invoke)
                       [] tool = "get_city_codes_amadeus" ->
                              get_city_codes_amadeus(amadeus_tools, invoke)]
    /\ UNCHANGED <<amadeus_tools, store>>
    /\ UNCHANGED graph_vars

CallFormat ==
    /\ \E f \in SearchArgs, h \in SearchArgs, a \in AirportArgs :
         call' = [tool |-> "format_amadeus_results",
                  args |-> [flight_results |-> f, hotel_results |-> h,
                            airport_results |-> a],
                  store_before |-> store,
                  result |-> format_amadeus_results(f, h, a)]
    /\ UNCHANGED <<amadeus_tools, store>>
    /\ UNCHANGED graph_vars

CallChroma ==
    /\ \E tool \in ChromaSearchNames, io \in CollectionIO, n \in NResults,
          country \in CountryFilters, region \in RegionFilters :
         LET got == get_travel_collection(store, io)
             count == Cardinality(got.store.docs)
         IN
         \E q \in QueryOutcomes(got.store.docs, Min(n, count)) :
           LET out ==
                 IF tool = "search_destinations_chroma"
                 THEN search_destinations_chroma(store, io, n, q)
                 ELSE search_destinations_by_criteria_chroma(
                          store, io, country, region, n, q)
           IN
           /\ tool = "search_destinations_chroma" =>
                 (country = "" /\ region = "")
           /\ store' = out.store
           /\ call' = [tool |-> tool,
                       args |-> [io |-> io, n_results |-> n,
                                 country |-> country, region |-> region],
                       store_before |-> store,
                       result |-> out.result]
    /\ UNCHANGED amadeus_tools
    /\ UNCHANGED graph_vars

LookupNames == Destinations \cup {"goa"}

\* The destination names the previous call returned, when it was a search.
Returned(c) ==
    IF c.tool = "search_destinations_chroma" /\ c.result.success
    THEN {c.result.results[i].destination : i \in 1..Len(c.result.results)}
    ELSE {}

CallLookup ==
    /\ \E name \in LookupNames, io \in CollectionIO :
         LET got == get_travel_collection(store, io)
             count == Cardinality(got.store.docs)
         IN
         \E q \in QueryOutcomes(got.store.docs, Min(LookupResults, count)) :
           LET out == get_destination_by_name_chroma(store, io, name, q) IN
           /\ store' = out.store
           /\ call' = [tool |-> "get_destination_by_name_chroma",
                       args |-> [io |-> io, destination_name |-> name,
                                 searched |-> Returned(call),
                                 query_raised |-> q.raised,
                                 hits |-> q.hits],
                       store_before |-> store,
                       result |-> out.result]
    /\ UNCHANGED amadeus_tools
    /\ UNCHANGED graph_vars

DecideEdge ==
    /\ \E history \in EdgeHistories :
         LET next == ModelEdge(pending_tool_calls(history)) IN
         call' = [tool |-> "pending_tool_calls",
                  args |-> [last_message |-> history[Len(history)]],
                  store_before |-> store,
                  result |-> [raised |-> next = "raise",
                              next |-> IF next = "raise" THEN "error"
                                       ELSE tick(next, NextStep(step),
                                                 recursion_limit)]]
    /\ UNCHANGED <<amadeus_tools, store>>
    /\ UNCHANGED graph_vars

ToolsNext == CallAmadeus \/ CallFormat \/ CallChroma \/ DecideEdge

ToolSpec == ToolsInit /\ [][ToolsNext]_vars

\* The vector store tools on their own: searches and lookups by name.
ChromaNext == CallChroma \/ CallLookup

ChromaSpec == ToolsInit /\ [][ChromaNext]_vars

\* ------------------------------------------------- the store being seeded
SeedInit ==
    /\ messages = <<HumanMessage(1)>>
    /\ safety = NoSafety
    /\ recursion_limit = MaxRecursionLimit
    /\ step = 1
    /\ pc = "idle"
    /\ nextId = 2
    /\ runs = [n \in Nodes |-> 0]
    /\ input_safety = NoSafety
    /\ response = ModelResponse(NoId, 0)
    /\ response_safety = NoSafety
    /\ response_remaining = 0
    /\ failure = "none"
    /\ model_calls = 0
    /\ completion = <<>>
    /\ travel_phase = "unset"
    /\ safety_writes = 0
    /\ model_input = <<>>
    /\ amadeus_tools = {}
    /\ store \in {[client_ok |-> c, path |-> p, exists |-> FALSE,
                   docs |-> {}] : c \in BOOLEAN, p \in {"missing", "empty"}}
    /\ call = NoToolCall

\* A search or stats tool obtains the collection.
TouchCollection ==
    /\ \E io \in CollectionIO :
         LET got == get_travel_collection(store, io) IN
         /\ store' = got.store
         /\ call' = [tool |-> "get_travel_collection", args |-> [io |-> io],
                     store_before |-> store,
                     result |-> [ok |-> got.collection]]
    /\ UNCHANGED amadeus_tools
    /\ UNCHANGED graph_vars

\* One run of seed_chromadb.py.
RunSeed ==
    /\ \E csv \in CsvFiles, io \in CollectionIO, count_ok \in BOOLEAN :
         \E fail_at \in 0..NumBatches(csv.rows) :
           LET out == main(store, csv, io, count_ok, fail_at) IN
           /\ store' = out.store
           /\ call' = [tool |-> "main",
                       args |-> [csv |-> csv, io |-> io,
                                 count_ok |-> count_ok, fail_at |-> fail_at],
                       store_before |-> store,
                       result |-> [ok |-> out.ok]]
    /\ UNCHANGED amadeus_tools
    /\ UNCHANGED graph_vars

\* setup_client, then populate_database on the loaded destinations.
RunPopulate ==
    /\ \E reset_db \in BOOLEAN, io \in CollectionIO, n \in CsvRows :
         \E fail_at \in 0..NumBatches(n) :
           LET setup == setup_client(store, reset_db, io)
               out == populate_database(setup.store, setup.ok, n, fail_at)
           IN
           /\ store' = out.store
           /\ call' = [tool |-> "populate_database",
                       args |-> [reset_db |-> reset_db, io |-> io,
                                 destinations |-> n, fail_at |-> fail_at],
                       store_before |-> setup.store,
                       result |-> [ok |-> out.ok]]
    /\ UNCHANGED amadeus_tools
    /\ UNCHANGED graph_vars

SeedNext == TouchCollection \/ RunSeed \/ RunPopulate

SeedSpec == SeedInit /\ [][SeedNext]_vars

\* ------------------------------------------------------------ properties
Last(msgs) == msgs[Len(msgs)]

Remaining == remaining_steps(recursion_limit, step)

TotalRuns ==
    runs["guard_input"] + runs["model"] + runs["tools"]
    + runs["block_unsafe_content"]

IsPrefix(s, t) ==
    /\ Len(s) <= Len(t)
    /\ \A i \in 1..Len(s) : s[i] = t[i]

IsSafetyMessage(m, s) ==
    /\ m.type = "ai"
    /\ m.content = Content("flagged", s.unsafe_categories)
    /\ m.tool_calls = <<>>

IsFallbackMessage(m) ==
    /\ m.type = "ai"
    /\ m.content = Content(FallbackText, {})
    /\ m.tool_calls = <<>>

InputUnsafe == input_safety.safety_assessment = "UNSAFE"

ResponseUnsafe == response_safety.safety_assessment = "UNSAFE"

\* C1: when guard_input's classifier verdict is UNSAFE, the tools node is
\* never scheduled or executed in the turn, and at graph exit the history is
\* the input followed by exactly one message, the safety message.
C1_UnsafeInputShortCircuit ==
    InputUnsafe =>
        /\ pc # "tools"
        /\ runs["tools"] = 0
        /\ pc = "done" =>
              /\ Len(messages) = 2
              /\ messages[1] = HumanMessage(1)
              /\ IsSafetyMessage(messages[2], input_safety)

C1_Witness ==
    /\ InputUnsafe
    /\ pc = "done"
    /\ runs["block_unsafe_content"] = 1
    /\ Len(messages) = 2

\* C2: once the output check marks a model response UNSAFE the run is over
\* (no node, in particular not tools, is scheduled after it), the last
\* message is the safety message for that verdict, and the response itself,
\* with its tool calls, is not in the history.
C2_UnsafeOutputShortCircuit ==
    ResponseUnsafe =>
        /\ pc \in Exits
        /\ IsSafetyMessage(Last(messages), response_safety)
        /\ response.id \notin Ids(messages)

C2_Witness ==
    /\ ResponseUnsafe
    /\ response.tool_calls # <<>>
    /\ response_remaining >= 2
    /\ pc = "done"

\* C3: whatever the model responds and whatever the tools return, a turn
\* started at guard_input eventually ends: the graph exits at END or the
\* runtime ends the run at its recursion limit.
C3_TurnTerminates == <>(pc \in Exits)

C3_Witness ==
    /\ pc = "done"
    /\ runs["model"] >= 3
    /\ runs["tools"] = runs["model"] - 1
    /\ IsFallbackMessage(Last(messages))

\* C4: a response that is not UNSAFE, carries tool calls and was produced
\* with remaining_steps < 2 is replaced by the fallback message without tool
\* calls; no node is scheduled after it (tools is not entered), and with
\* remaining_steps = 1 the graph exits at END.
C4_BudgetFallback ==
    (/\ runs["model"] >= 1
     /\ ~ResponseUnsafe
     /\ response.tool_calls # <<>>
     /\ response_remaining < 2) =>
        /\ Last(messages) = AIMessage(response.id, Content(FallbackText, {}),
                                      <<>>)
        /\ pc \in Exits
        /\ response_remaining = 1 => pc = "done"

C4_Witness ==
    /\ runs["model"] >= 1
    /\ ~ResponseUnsafe
    /\ response.tool_calls # <<>>
    /\ response_remaining = 1
    /\ pc = "done"

\* C5: in one turn neither the model node nor the tools node runs more often
\* than the configured recursion limit.
C5_ModelRunsBounded ==
    /\ runs["model"] <= recursion_limit
    /\ runs["tools"] <= recursion_limit

C5_Witness ==
    /\ runs["model"] >= 3
    /\ runs["model"] * 2 = recursion_limit
    /\ runs["tools"] = runs["model"] - 1
    /\ pc \in Exits

C8_OneTerminalOutcome ==
    pc = "done" =>
        /\ Last(messages).type = "ai"
        /\ Last(messages).tool_calls = <<>>
        /\ (InputUnsafe \/ ResponseUnsafe) =>
              IsSafetyMessage(Last(messages), safety)

C8_Witness ==
    /\ pc = "done"
    /\ runs["tools"] >= 1
    /\ ~InputUnsafe
    /\ ~ResponseUnsafe
    /\ Last(messages) = response

NearestAI(msgs, i) ==
    CHOOSE j \in 1..(i - 1) :
        /\ msgs[j].type = "ai"
        /\ \A k \in (j + 1)..(i - 1) : msgs[k].type # "ai"

CallIds(m) == {m.tool_calls[k].id : k \in 1..Len(m.tool_calls)}

\* C9: every tool message in the history is preceded by an assistant
\* message, and its tool_call_id is the id of a tool call of the nearest
\* preceding assistant message.
C9_ToolResultMatchesCall ==
    \A i \in 1..Len(messages) :
        messages[i].type = "tool" =>
            /\ \E j \in 1..(i - 1) : messages[j].type = "ai"
            /\ messages[i].tool_call_id
                  \in CallIds(messages[NearestAI(messages, i)])

C9_Witness ==
    /\ runs["tools"] = 2
    /\ \E i \in 1..Len(messages) :
          /\ messages[i].type = "tool"
          /\ NearestAI(messages, i) > 2

\* C10: every step leaves the existing messages in place: the history
\* before the step is a prefix of the history after it.
C10_AppendOnly == [][IsPrefix(messages, messages')]_vars

C10_Witness ==
    /\ IsFallbackMessage(Last(messages))
    /\ Last(messages).id = response.id
    /\ Len(messages) >= 4

InputVerdictOther ==
    input_safety.safety_assessment \notin {"NONE", "SAFE", "UNSAFE"}

\* C12: when the input classifier call raises, or returns a verdict that is
\* neither SAFE nor UNSAFE, the model node is neither scheduled nor executed
\* and the turn ends with an error.
C12_NeverDefaultSafe ==
    (failure = "guard_input" \/ InputVerdictOther) =>
        /\ pc = "error"
        /\ runs["model"] = 0

ToolRequests(msgs) ==
    Cardinality({j \in 1..Len(msgs) :
                    msgs[j].type = "ai" /\ msgs[j].tool_calls # <<>>})

\* C15: a turn that exits at END with a final answer of the model, no
\* verdict being UNSAFE, after k responses that requested tools, has run the
\* model node exactly k + 1 times and the tools node exactly k times.
C15_RunsPerToolRound ==
    (/\ pc = "done"
     /\ ~InputUnsafe
     /\ ~ResponseUnsafe
     /\ Last(messages) = response) =>
        /\ runs["model"] = ToolRequests(messages) + 1
        /\ runs["tools"] = ToolRequests(messages)
        /\ model_calls = runs["model"]

C15_Witness ==
    /\ pc = "done"
    /\ input_safety.safety_assessment = "SAFE"
    /\ response_safety.safety_assessment = "SAFE"
    /\ Last(messages) = response
    /\ ToolRequests(messages) = 1
    /\ runs["model"] = 2

\* C17: when the model call raises, the model node calls the model once,
\* appends nothing to the history, and the turn ends with an error.
C17_ModelFailurePropagates ==
    [][(failure = "none" /\ failure' = "model") =>
          /\ messages' = messages
          /\ model_calls' = model_calls + 1
          /\ pc' = "error"]_vars

C17_Witness ==
    /\ failure = "model"
    /\ pc = "error"
    /\ runs["tools"] >= 1
    /\ Last(messages).type = "tool"

\* C18: when the input verdict is UNSAFE the model node is never scheduled
\* or executed and the model is never called; once the safety message is
\* appended the run is over.
C18_UnsafeInputSkipsModel ==
    InputUnsafe =>
        /\ pc # "model"
        /\ runs["model"] = 0
        /\ model_calls = 0
        /\ runs["block_unsafe_content"] >= 1 => pc \in Exits

C18_Witness ==
    /\ InputUnsafe
    /\ runs["block_unsafe_content"] = 1
    /\ runs["model"] = 0
    /\ recursion_limit >= 3
    /\ pc = "done"

\* C13: no tool of the registry lets an exception escape: every call
\* returns a structured result, with success = false when something raised
\* inside it.
C13_ToolsNeverRaise ==
    call.tool \in ToolNames => ~call.result.raised

BackendDown(c) ==
    \/ c.tool \in AmadeusToolNames /\ amadeus_tools = {}
    \/ /\ c.tool \in ChromaSearchNames
       /\ ~get_travel_collection(c.store_before, c.args.io).collection

CollectionEmpty(c) ==
    /\ c.tool \in ChromaSearchNames
    /\ get_travel_collection(c.store_before, c.args.io).collection
    /\ get_travel_collection(c.store_before, c.args.io).store.docs = {}

\* C14: a search tool called while its backing service is unavailable (no
\* Amadeus toolkit, no vector store client, no collection) or while the
\* collection is empty returns, without raising, success = false, a
\* non-empty message and an empty result list; for the empty collection the
\* message begins "No destinations found".
C14_UnavailableBackend ==
    (call.tool \in (AmadeusToolNames \cup ChromaSearchNames)
     /\ (BackendDown(call) \/ CollectionEmpty(call))) =>
        /\ ~call.result.raised
        /\ ~call.result.success
        /\ Len(call.result.message) > 0
        /\ call.result.results = <<>>
        /\ CollectionEmpty(call) =>
              call.result.message[1] = "No destinations found"

C14_Witness ==
    /\ call.tool = "search_destinations_chroma"
    /\ ~call.store_before.exists
    /\ store.exists
    /\ CollectionEmpty(call)
    /\ call.result.message[1] = "No destinations found"

\* C16: when the last message of the history is not an assistant message,
\* the edge out of the model node raises and the turn ends with an error; it
\* goes neither to tools nor to END.
C16_MalformedLastMessage ==
    (call.tool = "pending_tool_calls"
     /\ call.args.last_message.type # "ai") =>
        /\ call.result.raised
        /\ call.result.next = "error"

C16_Witness ==
    /\ call.tool = "pending_tool_calls"
    /\ call.args.last_message.type = "tool"
    /\ call.result.next = "error"

\* C23: a model node execution that returns selects tools exactly when the
\* response was not classified UNSAFE, carries at least one tool call and
\* was produced with remaining_steps >= 2, and selects END in every other
\* case (after which no node runs); a tools execution is always followed by
\* the model node.
C23_ModelTransition ==
    [][/\ (runs'["model"] = runs["model"] + 1 /\ failure' = "none") =>
            LET toTools ==
                    /\ response_safety'.safety_assessment # "UNSAFE"
                    /\ response'.tool_calls # <<>>
                    /\ response_remaining' >= 2
                chosen == ModelEdge(pending_tool_calls(messages'))
            IN
            /\ chosen = (IF toTools THEN "tools" ELSE "END")
            /\ (pc' = "tools") <=> toTools
            /\ ~toTools => pc' \in Exits
       /\ runs'["tools"] = runs["tools"] + 1 => pc' = "model"]_vars

C23_Witness ==
    /\ pc = "tools"
    /\ runs["tools"] >= 1
    /\ ~ResponseUnsafe
    /\ response_remaining >= 2

\* C24: the bound model is only invoked after guard_input has classified
\* the input, and a model response is appended to the history only if the
\* output classifier returned a verdict on it and that verdict is not UNSAFE.
C24_ClassifiedBeforeAccepted ==
    [][/\ model_calls' > model_calls =>
            /\ runs["guard_input"] = 1
            /\ input_safety \in LlamaGuardOutput
       /\ (/\ runs'["model"] = runs["model"] + 1
           /\ \E i \in (Len(messages) + 1)..Len(messages') :
                 messages'[i] = response') =>
            /\ failure' = "none"
            /\ response_safety' \in LlamaGuardOutput
            /\ response_safety'.safety_assessment # "UNSAFE"]_vars

C24_Witness ==
    /\ runs["model"] >= 2
    /\ \E i \in 1..Len(messages) : messages[i] = response
    /\ response_safety.safety_assessment = "SAFE"

\* C25: in one turn state["safety"] is written at most twice, whatever the
\* number of model/tools rounds: by guard_input, and by the model node for an
\* UNSAFE output.
C25_SafetyWrittenTwice == safety_writes <= 2

C25_Witness ==
    /\ safety_writes = 2
    /\ runs["tools"] >= 2
    /\ ResponseUnsafe

\* C26: the instructions are the head of what the bound model is given and
\* the history follows them; no message of the history is a system message.
C26_SystemNeverStored ==
    /\ \A i \in 1..Len(messages) : messages[i].type # "system"
    /\ model_calls >= 1 =>
          /\ Head(model_input) = SystemMessage
          /\ IsPrefix(Tail(model_input), messages)

C26_Witness ==
    /\ model_calls >= 2
    /\ Len(model_input) >= 4
    /\ pc = "done"

\* C27: no node execution changes state["travel_phase"].
C27_PhaseFixed == [][travel_phase' = travel_phase]_vars

C27_Witness ==
    /\ travel_phase = "planning"
    /\ runs["tools"] >= 1
    /\ runs["model"] >= 2
    /\ pc = "done"

\* C28: for a response classified UNSAFE that carries tool calls and was
\* produced with remaining_steps < 2 the appended message is the safety
\* message; the fallback message for a response is only in the history when
\* that response was not classified UNSAFE.
C28_SafetyBeforeFallback ==
    /\ (/\ ResponseUnsafe
        /\ response.tool_calls # <<>>
        /\ response_remaining < 2) =>
            /\ IsSafetyMessage(Last(messages), response_safety)
            /\ ~IsFallbackMessage(Last(messages))
    /\ (/\ runs["model"] >= 1
        /\ IsFallbackMessage(Last(messages))
        /\ Last(messages).id = response.id) => ~ResponseUnsafe

C28_Witness ==
    /\ ResponseUnsafe
    /\ response.tool_calls # <<>>
    /\ response_remaining < 2
    /\ runs["tools"] >= 1
    /\ IsSafetyMessage(Last(messages), response_safety)

\* C22: on a collection that can be obtained and holds documents, looking
\* up by name a destination that the search made just before returned (the
\* lookup's own query not failing) succeeds and returns that destination.
C22_LookupFindsSearched ==
    (/\ call.tool = "get_destination_by_name_chroma"
     /\ call.args.destination_name \in call.args.searched
     /\ call.args.destination_name \in store.docs
     /\ get_travel_collection(call.store_before, call.args.io).collection
     /\ ~call.args.query_raised) =>
        /\ call.result.success
        /\ Len(call.result.results) = 1
        /\ call.result.results[1].destination = call.args.destination_name

\* C29: whenever main() of the seeding script returns True the collection
\* exists and holds at least one destination, whatever was done to the store
\* before.
C29_SeededAfterMain ==
    (call.tool = "main" /\ call.result.ok) =>
        /\ store.exists
        /\ store.docs # {}

\* C30: whenever populate_database returns False the collection holds
\* exactly the documents it held when populate_database was called.
C30_PopulateAllOrNothing ==
    (call.tool = "populate_database" /\ ~call.result.ok) =>
        store.docs = call.store_before.docs

====
